---- MODULE Spec2Model ----
(***************************************************************************)
(* Model of the optimization-engine core: the projection operators of      *)
(* src/constraints and the forward-backward-splitting (FBS) engine and      *)
(* optimizer of src/core/fbs.                                               *)
(*                                                                         *)
(* Numbers.  A value of the float type T is modelled as an exact rational   *)
(* <<n, d>> in lowest terms with d > 0, or as one of the three non-finite   *)
(* values <<0,0>> (NaN), <<1,0>> (+infinity), <<-1,0>> (-infinity).         *)
(* Arithmetic on finite values is exact (no rounding, no signed zero);      *)
(* arithmetic on non-finite values follows IEEE-754.                        *)
(***************************************************************************)
EXTENDS Integers, Sequences, FiniteSets, TLC

----------------------------------------------------------------------------
(* The float type T (num::Float through the OptFloat trait)                *)

IAbs(i) == IF i < 0 THEN -i ELSE i

ISgn(i) == IF i > 0 THEN 1 ELSE IF i < 0 THEN -1 ELSE 0

RECURSIVE GCD(_, _)
GCD(a, b) == IF b = 0 THEN a ELSE GCD(b, a % b)

\* the value n/d; d = 0 gives NaN (n = 0) or a signed infinity
Rat(n, d) ==
  IF d = 0 THEN <<ISgn(n), 0>>
  ELSE LET g == GCD(IAbs(n), IAbs(d))
           s == ISgn(d)
       IN  <<(s * n) \div g, (s * d) \div g>>

Int2F(i) == <<i, 1>>

Zero == <<0, 1>>

One == <<1, 1>>

NaN == <<0, 0>>

PInf == <<1, 0>>

NInf == <<-1, 0>>

IsNaN(a) == a = NaN

IsFiniteF(a) == a[2] # 0

FAdd(a, b) ==
  IF a[2] = 0 /\ b[2] = 0
  THEN (IF a = b THEN a ELSE NaN)
  ELSE Rat(a[1] * b[2] + b[1] * a[2], a[2] * b[2])

FNeg(a) == <<-a[1], a[2]>>

FSub(a, b) == FAdd(a, FNeg(b))

FMul(a, b) == Rat(a[1] * b[1], a[2] * b[2])

FInv(a) == Rat(a[2], a[1])

FDiv(a, b) == FMul(a, FInv(b))

FLt(a, b) ==
  /\ ~IsNaN(a)
  /\ ~IsNaN(b)
  /\ IF a[2] = 0 /\ b[2] = 0 THEN a[1] < b[1]
     ELSE a[1] * b[2] < b[1] * a[2]

FLe(a, b) ==
  /\ ~IsNaN(a)
  /\ ~IsNaN(b)
  /\ IF a[2] = 0 /\ b[2] = 0 THEN a[1] <= b[1]
     ELSE a[1] * b[2] <= b[1] * a[2]

FGt(a, b) == FLt(b, a)

FGe(a, b) == FLe(b, a)

\* the == of floats: NaN is equal to nothing
FEq(a, b) == ~IsNaN(a) /\ ~IsNaN(b) /\ a = b

FAbs(a) == <<IAbs(a[1]), a[2]>>

\* f64::signum: 1 for positive values and +0, -1 for negative ones, NaN for NaN
FSignum(a) == IF IsNaN(a) THEN NaN ELSE IF a[1] < 0 THEN <<-1, 1>> ELSE One

\* Float::max: the other operand when one is NaN
FMax(a, b) ==
  IF IsNaN(a) THEN b ELSE IF IsNaN(b) THEN a ELSE IF FLt(a, b) THEN b ELSE a

\* resolution of the rounded square root of a non-square
SqrtGrid == 100

\* largest k in lo..hi with k*k <= n, by bisection
RECURSIVE ISqrtBetween(_, _, _)
ISqrtBetween(n, lo, hi) ==
  IF lo = hi THEN lo
  ELSE LET mid == (lo + hi + 1) \div 2
       IN  IF mid * mid <= n THEN ISqrtBetween(n, mid, hi) ELSE ISqrtBetween(n, lo, mid - 1)

\* largest k with k*k <= n
ISqrt(n) == ISqrtBetween(n, 0, IF n < 46340 THEN n ELSE 46340)

IsSquare(n) == ISqrt(n) * ISqrt(n) = n

\* Float::sqrt: exact on squares of rationals; a non-square is rounded down
\* to a multiple of 1/SqrtGrid (floats round it to the nearest float)
FSqrt(a) ==
  IF IsNaN(a) \/ a[1] < 0 THEN NaN
  ELSE IF a[2] = 0 THEN PInf
  ELSE IF IsSquare(a[1]) /\ IsSquare(a[2]) THEN Rat(ISqrt(a[1]), ISqrt(a[2]))
  ELSE Rat(ISqrt((a[1] * SqrtGrid * SqrtGrid) \div a[2]), SqrtGrid)

\* the square root returns the exact value on this argument
SqrtExact(a) == a[2] = 0 \/ a[1] < 0 \/ (IsSquare(a[1]) /\ IsSquare(a[2]))

----------------------------------------------------------------------------
(* matrix_operations                                                       *)

RECURSIVE SumSeq(_)
SumSeq(s) == IF s = <<>> THEN Zero ELSE FAdd(SumSeq(SubSeq(s, 1, Len(s) - 1)), s[Len(s)])

\* a.len().min(b.len()): the length a zip of the two slices runs over
ZipLen(a, b) == IF Len(a) < Len(b) THEN Len(a) ELSE Len(b)

norm1(x) == SumSeq([i \in 1..Len(x) |-> FAbs(x[i])])

norm2_squared(x) == SumSeq([i \in 1..Len(x) |-> FMul(x[i], x[i])])

norm2(x) == FSqrt(norm2_squared(x))

inner_product(a, b) == SumSeq([i \in 1..ZipLen(a, b) |-> FMul(a[i], b[i])])

norm2_squared_diff(a, b) ==
  SumSeq([i \in 1..ZipLen(a, b) |-> FMul(FSub(a[i], b[i]), FSub(a[i], b[i]))])

RECURSIVE MaxSeq(_)
MaxSeq(s) == IF s = <<>> THEN Zero ELSE FMax(s[Len(s)], MaxSeq(SubSeq(s, 1, Len(s) - 1)))

norm_inf_diff(a, b) == MaxSeq([i \in 1..ZipLen(a, b) |-> FAbs(FSub(a[i], b[i]))])

is_finite(x) == \A i \in 1..Len(x) : IsFiniteF(x[i])

----------------------------------------------------------------------------
(* Constraint sets.  An Option<&[T]> is <<>> (None) or <<slice>> (Some).   *)

\* the fields of all constraint structs; a set uses the fields of its kind
BlankSet ==
  [kind |-> "NoConstraints", center |-> <<>>, radius |-> Zero, alpha |-> Zero,
   xmin |-> <<>>, xmax |-> <<>>, normal_vector |-> <<>>, offset |-> Zero,
   normal_vector_squared_norm |-> Zero]

NoConstraintsNew == BlankSet

ZeroNew == [BlankSet EXCEPT !.kind = "Zero"]

RectangleNew(xmin, xmax) == [BlankSet EXCEPT !.kind = "Rectangle", !.xmin = xmin, !.xmax = xmax]

Ball2New(center, radius) == [BlankSet EXCEPT !.kind = "Ball2", !.center = center, !.radius = radius]

BallInfNew(center, radius) == [BlankSet EXCEPT !.kind = "BallInf", !.center = center, !.radius = radius]

Ball1New(center, radius) == [BlankSet EXCEPT !.kind = "Ball1", !.center = center, !.radius = radius]

Sphere2New(center, radius) == [BlankSet EXCEPT !.kind = "Sphere2", !.center = center, !.radius = radius]

SimplexNew(alpha) == [BlankSet EXCEPT !.kind = "Simplex", !.alpha = alpha]

SecondOrderConeNew(alpha) == [BlankSet EXCEPT !.kind = "SecondOrderCone", !.alpha = alpha]

HyperplaneNew(normal_vector, offset) ==
  [BlankSet EXCEPT !.kind = "Hyperplane", !.normal_vector = normal_vector, !.offset = offset,
                   !.normal_vector_squared_norm = norm2_squared(normal_vector)]

\* the assertions of the constructors: TRUE when new returns a value
RectangleNewAccepts(xmin, xmax) ==
  /\ xmin # <<>> \/ xmax # <<>>
  /\ xmin = <<>> \/ xmax = <<>> \/ Len(xmin[1]) = Len(xmax[1])

Ball2NewAccepts(center, radius) == FGt(radius, Zero)

BallInfNewAccepts(center, radius) == FGt(radius, Zero)

Ball1NewAccepts(center, radius) == FGt(radius, Zero)

Sphere2NewAccepts(center, radius) == FGt(radius, Zero)

SimplexNewAccepts(alpha) == FGt(alpha, Zero)

SecondOrderConeNewAccepts(alpha) == FGt(alpha, Zero)

\* a is the argument list of a constructor call, in the fields of its kind
NewAccepts(a) ==
  CASE a.kind = "Rectangle" -> RectangleNewAccepts(a.xmin, a.xmax)
    [] a.kind = "Ball2" -> Ball2NewAccepts(a.center, a.radius)
    [] a.kind = "BallInf" -> BallInfNewAccepts(a.center, a.radius)
    [] a.kind = "Ball1" -> Ball1NewAccepts(a.center, a.radius)
    [] a.kind = "Sphere2" -> Sphere2NewAccepts(a.center, a.radius)
    [] a.kind = "Simplex" -> SimplexNewAccepts(a.alpha)
    [] a.kind = "SecondOrderCone" -> SecondOrderConeNewAccepts(a.alpha)
    [] OTHER -> TRUE

\* the value the constructor call returns
New(a) ==
  CASE a.kind = "NoConstraints" -> NoConstraintsNew
    [] a.kind = "Zero" -> ZeroNew
    [] a.kind = "Rectangle" -> RectangleNew(a.xmin, a.xmax)
    [] a.kind = "Ball2" -> Ball2New(a.center, a.radius)
    [] a.kind = "BallInf" -> BallInfNew(a.center, a.radius)
    [] a.kind = "Ball1" -> Ball1New(a.center, a.radius)
    [] a.kind = "Sphere2" -> Sphere2New(a.center, a.radius)
    [] a.kind = "Simplex" -> SimplexNew(a.alpha)
    [] a.kind = "SecondOrderCone" -> SecondOrderConeNew(a.alpha)
    [] a.kind = "Hyperplane" -> HyperplaneNew(a.normal_vector, a.offset)

NoConstraintsProject(x) == x

ZeroProject(x) == [i \in 1..Len(x) |-> Zero]

RectClampMin(x_, xmin_) == IF FLt(x_, xmin_) THEN xmin_ ELSE x_

RectClampMax(x_, xmax_) == IF FGt(x_, xmax_) THEN xmax_ ELSE x_

\* Rectangle::project clamping against xmax first and xmin second
RectangleProject_xmax_first(xmin, xmax, x) ==
  LET x1 == IF xmax # <<>>
            THEN [i \in 1..Len(x) |->
                    IF i <= Len(xmax[1]) THEN RectClampMax(x[i], xmax[1][i]) ELSE x[i]]
            ELSE x
  IN  IF xmin # <<>>
      THEN [i \in 1..Len(x) |->
              IF i <= Len(xmin[1]) THEN RectClampMin(x1[i], xmin[1][i]) ELSE x1[i]]
      ELSE x1

\* a zip of x with a shorter slice leaves the elements of x past its end
RectangleProject(xmin, xmax, x) ==
  LET x1 == IF xmin # <<>>
            THEN [i \in 1..Len(x) |->
                    IF i <= Len(xmin[1]) THEN RectClampMin(x[i], xmin[1][i]) ELSE x[i]]
            ELSE x
  IN  IF xmax # <<>>
      THEN [i \in 1..Len(x) |->
              IF i <= Len(xmax[1]) THEN RectClampMax(x1[i], xmax[1][i]) ELSE x1[i]]
      ELSE x1

\* Ball2::project dividing by radius / norm_x in the centre-less branch
Ball2Project_inverted_ratio(center, radius, x) ==
  IF center # <<>>
  THEN LET c == center[1]
           norm_difference == FSqrt(norm2_squared_diff(x, c))
       IN  IF FGt(norm_difference, radius)
           THEN [i \in 1..Len(x) |->
                   IF i <= Len(c)
                   THEN FAdd(c[i], FDiv(FMul(radius, FSub(x[i], c[i])), norm_difference))
                   ELSE x[i]]
           ELSE x
  ELSE LET norm_x == norm2(x)
           norm_over_radius == FDiv(radius, norm_x)
       IN  IF FGt(norm_x, radius)
           THEN [i \in 1..Len(x) |-> FDiv(x[i], norm_over_radius)]
           ELSE x

\* Ball2::project without adding the centre back
Ball2Project_center_dropped(center, radius, x) ==
  IF center # <<>>
  THEN LET c == center[1]
           norm_difference == FSqrt(norm2_squared_diff(x, c))
       IN  IF FGt(norm_difference, radius)
           THEN [i \in 1..Len(x) |->
                   IF i <= Len(c)
                   THEN FDiv(FMul(radius, FSub(x[i], c[i])), norm_difference)
                   ELSE x[i]]
           ELSE x
  ELSE LET norm_x == norm2(x)
           norm_over_radius == FDiv(norm_x, radius)
       IN  IF FGt(norm_x, radius)
           THEN [i \in 1..Len(x) |-> FDiv(x[i], norm_over_radius)]
           ELSE x

Ball2Project(center, radius, x) ==
  IF center # <<>>
  THEN LET c == center[1]
           norm_difference == FSqrt(norm2_squared_diff(x, c))
       IN  IF FGt(norm_difference, radius)
           THEN [i \in 1..Len(x) |->
                   IF i <= Len(c)
                   THEN FAdd(c[i], FDiv(FMul(radius, FSub(x[i], c[i])), norm_difference))
                   ELSE x[i]]
           ELSE x
  ELSE LET norm_x == norm2(x)
           norm_over_radius == FDiv(norm_x, radius)
       IN  IF FGt(norm_x, radius)
           THEN [i \in 1..Len(x) |-> FDiv(x[i], norm_over_radius)]
           ELSE x

\* BallInf::project setting a clamped coordinate to +radius whatever its sign
BallInfProject_no_signum(center, radius, x) ==
  IF center # <<>>
  THEN LET c == center[1]
       IN  [i \in 1..Len(x) |->
              IF i <= Len(c) /\ FGt(FAbs(FSub(x[i], c[i])), radius)
              THEN FAdd(c[i], radius)
              ELSE x[i]]
  ELSE [i \in 1..Len(x) |->
          IF FGt(FAbs(x[i]), radius) THEN radius ELSE x[i]]

BallInfProject(center, radius, x) ==
  IF center # <<>>
  THEN LET c == center[1]
       IN  [i \in 1..Len(x) |->
              IF i <= Len(c) /\ FGt(FAbs(FSub(x[i], c[i])), radius)
              THEN FAdd(c[i], FMul(FSignum(FSub(x[i], c[i])), radius))
              ELSE x[i]]
  ELSE [i \in 1..Len(x) |->
          IF FGt(FAbs(x[i]), radius) THEN FMul(FSignum(x[i]), radius) ELSE x[i]]

\* T::from(1e-12): lengths in the Sphere2 model are measured in units of
\* 1e-12, so that the threshold is one unit
epsilon == One

Sphere2Project(center, radius, x) ==
  IF center # <<>>
  THEN LET c == center[1]
           norm_difference == FSqrt(norm2_squared_diff(x, c))
       IN  IF FLe(norm_difference, epsilon)
           THEN [c EXCEPT ![1] = FAdd(c[1], radius)]
           ELSE [i \in 1..Len(x) |->
                   IF i <= Len(c)
                   THEN FAdd(c[i], FDiv(FMul(radius, FSub(x[i], c[i])), norm_difference))
                   ELSE x[i]]
  ELSE LET norm_x == norm2(x)
           norm_over_radius == FDiv(radius, norm_x)
       IN  IF FLe(norm_x, epsilon)
           THEN [x EXCEPT ![1] = FAdd(x[1], radius)]
           ELSE [i \in 1..Len(x) |-> FMul(x[i], norm_over_radius)]

\* SecondOrderCone::project with beta not divided by alpha^2 + 1
SecondOrderConeProject_beta_unscaled(alpha, x) ==
  LET n == Len(x)
      z == SubSeq(x, 1, n - 1)
      r == x[n]
      norm_z == norm2(z)
      beta == FAdd(FMul(alpha, norm_z), r)
  IN  IF FLe(FMul(alpha, norm_z), FNeg(r)) THEN [i \in 1..n |-> Zero]
      ELSE IF FGt(norm_z, FMul(alpha, r))
      THEN [i \in 1..n |-> IF i < n THEN FDiv(FMul(FMul(x[i], alpha), beta), norm_z) ELSE beta]
      ELSE x

SecondOrderConeProject(alpha, x) ==
  LET n == Len(x)
      z == SubSeq(x, 1, n - 1)
      r == x[n]
      norm_z == norm2(z)
      beta == FDiv(FAdd(FMul(alpha, norm_z), r), FAdd(FMul(alpha, alpha), One))
  IN  IF FLe(FMul(alpha, norm_z), FNeg(r)) THEN [i \in 1..n |-> Zero]
      ELSE IF FGt(norm_z, FMul(alpha, r))
      THEN [i \in 1..n |-> IF i < n THEN FDiv(FMul(FMul(x[i], alpha), beta), norm_z) ELSE beta]
      ELSE x

\* Hyperplane::project without the division by the squared norm
HyperplaneProject_not_normalised(normal_vector, offset, normal_vector_squared_norm, x) ==
  LET inner == inner_product(x, normal_vector)
      factor == FSub(inner, offset)
  IN  [i \in 1..Len(x) |->
         IF i <= Len(normal_vector) THEN FSub(x[i], FMul(factor, normal_vector[i]))
         ELSE x[i]]

HyperplaneProject(normal_vector, offset, normal_vector_squared_norm, x) ==
  LET inner == inner_product(x, normal_vector)
      factor == FDiv(FSub(inner, offset), normal_vector_squared_norm)
  IN  [i \in 1..Len(x) |->
         IF i <= Len(normal_vector) THEN FSub(x[i], FMul(factor, normal_vector[i]))
         ELSE x[i]]

\* step 2 of Simplex::project: v, v_tilde and rho after streaming x[2..k]
RECURSIVE SimplexScan(_, _, _)
SimplexScan(x, a, k) ==
  IF k = 1 THEN [v |-> <<x[1]>>, v_tilde |-> <<>>, rho |-> FSub(x[1], a)]
  ELSE LET s == SimplexScan(x, a, k - 1)
           x_n == x[k]
           len_plus_one == Int2F(Len(s.v) + 1)
           rho1 == FAdd(s.rho, FDiv(FSub(x_n, s.rho), len_plus_one))
       IN  IF FGt(x_n, s.rho)
           THEN IF FGt(rho1, FSub(x_n, a))
                THEN [v |-> Append(s.v, x_n), v_tilde |-> s.v_tilde, rho |-> rho1]
                ELSE [v |-> <<x_n>>, v_tilde |-> s.v_tilde \o s.v, rho |-> FSub(x_n, a)]
           ELSE s

\* step 3: v and rho after sweeping v_tilde[1..k]
RECURSIVE SimplexSweep(_, _)
SimplexSweep(s, k) ==
  IF k = 0 THEN s
  ELSE LET p == SimplexSweep(s, k - 1)
           v_t_n == s.v_tilde[k]
           v1 == Append(p.v, v_t_n)
           len_t == Int2F(Len(v1))
       IN  IF FGt(v_t_n, p.rho)
           THEN [p EXCEPT !.v = v1, !.rho = FAdd(p.rho, FDiv(FSub(v_t_n, p.rho), len_t))]
           ELSE p

\* the tentative rho of step 2 on reading x_n in the state s
SimplexScanRho(s, x_n) ==
  FAdd(s.rho, FDiv(FSub(x_n, s.rho), Int2F(Len(s.v) + 1)))

\* a pass of step 4 that divides by the length before the removal
RECURSIVE CleanupPass_len_before(_, _, _)
CleanupPass_len_before(v, rho, k) ==
  IF k = 0 THEN [hit_list |-> <<>>, current_len_v |-> Len(v), rho |-> rho]
  ELSE LET p == CleanupPass_len_before(v, rho, k - 1)
       IN  IF FLe(v[k], p.rho)
           THEN [hit_list |-> Append(p.hit_list, k),
                 current_len_v |-> p.current_len_v - 1,
                 rho |-> FAdd(p.rho, FDiv(FSub(p.rho, v[k]), Int2F(p.current_len_v)))]
           ELSE p

\* one pass of step 4 over v[1..k]: the hit list, the running length and rho
RECURSIVE CleanupPass(_, _, _)
CleanupPass(v, rho, k) ==
  IF k = 0 THEN [hit_list |-> <<>>, current_len_v |-> Len(v), rho |-> rho]
  ELSE LET p == CleanupPass(v, rho, k - 1)
           current_len_t == Int2F(p.current_len_v - 1)
       IN  IF FLe(v[k], p.rho)
           THEN [hit_list |-> Append(p.hit_list, k),
                 current_len_v |-> p.current_len_v - 1,
                 rho |-> FAdd(p.rho, FDiv(FSub(p.rho, v[k]), current_len_t))]
           ELSE p

\* Vec::remove(i), i counted from 1
RemoveAt(v, i) == SubSeq(v, 1, i - 1) \o SubSeq(v, i + 1, Len(v))

\* the removals of a pass done front to back: hit_list[1] first
RECURSIVE RemoveHits_ascending(_, _, _)
RemoveHits_ascending(v, hit_list, k) ==
  IF k = 0 THEN v
  ELSE RemoveAt(RemoveHits_ascending(v, hit_list, k - 1), hit_list[k])

\* hit_list.iter().rev(): remove hit_list[k], then hit_list[k-1], ...
RECURSIVE RemoveHits(_, _, _)
RemoveHits(v, hit_list, k) ==
  IF k = 0 THEN v ELSE RemoveHits(RemoveAt(v, hit_list[k]), hit_list, k - 1)

\* step 4: the while keep_running loop
RECURSIVE SimplexCleanup(_, _, _)
SimplexCleanup(v, rho, v_size_old) ==
  LET p == CleanupPass(v, rho, Len(v))
      v1 == RemoveHits(v, p.hit_list, Len(p.hit_list))
  IN  IF p.current_len_v # v_size_old
      THEN SimplexCleanup(v1, p.rho, p.current_len_v)
      ELSE [v |-> v1, rho |-> p.rho]

\* the passes of the while keep_running loop, one record a pass: v and rho
\* on entry, the hit list, the running length, v and rho at the end
RECURSIVE CleanupPasses(_, _, _)
CleanupPasses(v, rho, v_size_old) ==
  LET p == CleanupPass(v, rho, Len(v))
      v1 == RemoveHits(v, p.hit_list, Len(p.hit_list))
      pass == [v |-> v, rho |-> rho, hit_list |-> p.hit_list,
               current_len_v |-> p.current_len_v, v_after |-> v1, rho_after |-> p.rho]
  IN  IF p.current_len_v # v_size_old
      THEN <<pass>> \o CleanupPasses(v1, p.rho, p.current_len_v)
      ELSE <<pass>>

\* v, v_tilde and rho on entry to step 4
SimplexSwept(a, x) ==
  LET s2 == SimplexScan(x, a, Len(x))
  IN  IF s2.v_tilde # <<>> THEN SimplexSweep(s2, Len(s2.v_tilde)) ELSE s2

\* the passes step 4 makes on the input x
SimplexPasses(a, x) == CleanupPasses(SimplexSwept(a, x).v, SimplexSwept(a, x).rho, -1)

\* Simplex::project without step 3, the sweep of v_tilde
SimplexRho_no_sweep(a, x) ==
  LET s2 == SimplexScan(x, a, Len(x))
  IN  SimplexCleanup(s2.v, s2.rho, -1).rho

\* the threshold rho Simplex::project ends with
SimplexRho(a, x) ==
  LET s2 == SimplexScan(x, a, Len(x))
      s3 == IF s2.v_tilde # <<>> THEN SimplexSweep(s2, Len(s2.v_tilde)) ELSE s2
  IN  SimplexCleanup(s3.v, s3.rho, -1).rho

\* step 6 without the clamp at zero
SimplexProject_no_clamp(a, x) ==
  LET rho == SimplexRho(a, x)
  IN  [i \in 1..Len(x) |-> FSub(x[i], rho)]

SimplexProject(a, x) ==
  LET rho == SimplexRho(a, x)
  IN  [i \in 1..Len(x) |-> FMax(Zero, FSub(x[i], rho))]

\* project_on_ball1_centered_at_origin without restoring the signs
project_on_ball1_unsigned(radius, x) ==
  IF FGt(norm1(x), radius)
  THEN SimplexProject(radius, [i \in 1..Len(x) |-> FAbs(x[i])])
  ELSE x

project_on_ball1_centered_at_origin(radius, x) ==
  IF FGt(norm1(x), radius)
  THEN LET u == SimplexProject(radius, [i \in 1..Len(x) |-> FAbs(x[i])])
       IN  [i \in 1..Len(x) |-> FMul(FSignum(x[i]), u[i])]
  ELSE x

Ball1Project(center, radius, x) ==
  IF center # <<>>
  THEN LET c == center[1]
           shifted == [i \in 1..Len(x) |-> IF i <= Len(c) THEN FSub(x[i], c[i]) ELSE x[i]]
           y == project_on_ball1_centered_at_origin(radius, shifted)
       IN  [i \in 1..Len(x) |-> IF i <= Len(c) THEN FAdd(y[i], c[i]) ELSE y[i]]
  ELSE project_on_ball1_centered_at_origin(radius, x)

\* Constraint::project of the set c
Project(c, x) ==
  CASE c.kind = "NoConstraints" -> NoConstraintsProject(x)
    [] c.kind = "Zero" -> ZeroProject(x)
    [] c.kind = "Rectangle" -> RectangleProject(c.xmin, c.xmax, x)
    [] c.kind = "Ball2" -> Ball2Project(c.center, c.radius, x)
    [] c.kind = "BallInf" -> BallInfProject(c.center, c.radius, x)
    [] c.kind = "Ball1" -> Ball1Project(c.center, c.radius, x)
    [] c.kind = "Sphere2" -> Sphere2Project(c.center, c.radius, x)
    [] c.kind = "Simplex" -> SimplexProject(c.alpha, x)
    [] c.kind = "SecondOrderCone" -> SecondOrderConeProject(c.alpha, x)
    [] c.kind = "Hyperplane" ->
         HyperplaneProject(c.normal_vector, c.offset, c.normal_vector_squared_norm, x)

\* Constraint::is_convex
is_convex(c) == c.kind # "Sphere2"

----------------------------------------------------------------------------
(* Bounds of the model                                                     *)

\* problem dimension n of the FBS instances
Dim == 2

\* largest max_iter given to with_max_iter
MaxIterBound == 3

\* largest max_duration, in clock ticks
MaxDur == 2

\* the clock is observed up to this many ticks
MaxElapsed == 3

\* problem sizes given to PANOCCache::new are 1..MaxProblemSize
MaxProblemSize == 2

\* a PANOC engine makes at most this many steps after an init
MaxIteration == 2

----------------------------------------------------------------------------
(* State                                                                   *)

VARIABLES
  pc,            \* position of the caller: "new", "loop" (inside solve), "done"
  u,             \* the iterate, the caller's &mut [T]
  cache,         \* FBSCache
  problem,       \* Problem: constraints, gradf, cost
  max_iter,      \* FBSOptimizer.max_iter
  max_duration,  \* FBSOptimizer.max_duration, <<>> or <<dur>>
  num_iter,      \* local of solve
  step_flag,     \* local of solve
  elapsed,       \* the last reading of now.elapsed(), in ticks
  step_calls,    \* number of calls of FBSEngine::step made by this solve
  u_entry,       \* the iterate on entry to the last step
  solve_entry,   \* the iterate and the cache as handed to solve
  result,        \* what solve returned
  pset,          \* projection run: the constraint set
  px,            \* projection run: the input x and its images
  py,            \* projection run: the input y and its image
  pphase,        \* projection run: "off", "args", "panic", "input", "once", "twice"
  pcache,        \* PANOC run: the PANOCCache
  cargs,         \* PANOC run: the arguments of PANOCCache::new
  cu,            \* PANOC run: the iterate of the engine bound to the cache
  cret,          \* PANOC run: the last operation and the value it returned
  cphase         \* PANOC run: "off", "args", "panic", "live", "running"

fbs_vars == <<pc, u, cache, problem, max_iter, max_duration, num_iter, step_flag,
              elapsed, step_calls, u_entry, solve_entry, result>>

proj_vars == <<pset, px, py, pphase>>

panoc_vars == <<pcache, cargs, cu, cret, cphase>>

vars == <<pc, u, cache, problem, max_iter, max_duration, num_iter, step_flag,
          elapsed, step_calls, u_entry, solve_entry, result,
          pset, px, py, pphase,
          pcache, cargs, cu, cret, cphase>>

----------------------------------------------------------------------------
(* FBS: problem, cache, engine                                             *)

Half == Rat(1, 2)

\* FBSOptimizer default
MAX_ITER == 100

\* the user's gradient callback (Problem.gradf) on the output buffer g0: Ok
\* with the gradient written, or Err(SolverError::Cost)
GradF(kind, w, g0) ==
  CASE kind = "quad" -> [ok |-> TRUE, g |-> w]
    [] kind = "const" -> [ok |-> TRUE, g |-> [i \in 1..Len(w) |-> One]]
    [] kind = "my_gradient" ->
         [ok |-> TRUE,
          g |-> [i \in 1..Len(g0) |->
                   IF i = 1 THEN FAdd(FAdd(w[1], w[2]), One)
                   ELSE IF i = 2 THEN FSub(FAdd(w[1], FMul(Int2F(2), w[2])), One)
                   ELSE g0[i]]]
    [] kind = "nan" -> [ok |-> TRUE, g |-> [i \in 1..Len(w) |-> NaN]]
    [] kind = "failsmall" ->
         [ok |-> FGt(norm_inf_diff(w, [i \in 1..Len(w) |-> Zero]), One), g |-> w]

\* the user's cost callback (Problem.cost): Ok with the cost written over c0,
\* or Err(SolverError::Cost)
CostF(kind, w, c0) ==
  CASE kind = "quad" -> [ok |-> TRUE, c |-> FMul(Half, norm2_squared(w))]
    [] kind = "void" -> [ok |-> TRUE, c |-> c0]
    [] kind = "inf" -> [ok |-> TRUE, c |-> PInf]
    [] kind = "fail" -> [ok |-> FALSE, c |-> c0]

FBSCacheNew(n, gamma, tolerance) ==
  [work_gradient_u |-> [i \in 1..n |-> Zero],
   work_u_previous |-> [i \in 1..n |-> Zero],
   gamma |-> gamma,
   tolerance |-> tolerance,
   norm_fpr |-> PInf]

\* gradient_step after the callback returned r: the assert_eq! panics when
\* r is an Err; otherwise u_current -= gamma * gradient
gradient_step_apply(c, u_current, r) ==
  [panic |-> ~r.ok,
   work_gradient_u |-> r.g,
   u |-> [i \in 1..Len(u_current) |->
            IF i <= Len(r.g) THEN FSub(u_current[i], FMul(c.gamma, r.g[i]))
            ELSE u_current[i]]]

\* FBSEngine::gradient_step
gradient_step(prob, c, u_current) ==
  gradient_step_apply(c, u_current, GradF(prob.gradf, u_current, c.work_gradient_u))

projection_step(prob, u_current) == Project(prob.constraints, u_current)

\* the end of step with the termination test norm_fpr >= tolerance
step_return_ge(c1, gs, u2, fpr) ==
  [panic |-> FALSE, u |-> u2,
   cache |-> [c1 EXCEPT !.work_gradient_u = gs.work_gradient_u, !.norm_fpr = fpr],
   flag |-> FGe(fpr, c1.tolerance)]

\* the end of step: norm_fpr is stored, Ok(norm_fpr > tolerance) is returned
step_return(c1, gs, u2, fpr) ==
  [panic |-> FALSE, u |-> u2,
   cache |-> [c1 EXCEPT !.work_gradient_u = gs.work_gradient_u, !.norm_fpr = fpr],
   flag |-> FGt(fpr, c1.tolerance)]

\* step after the projection gave u2
step_after_projection(c1, gs, u2) ==
  step_return(c1, gs, u2, norm_inf_diff(u2, c1.work_u_previous))

\* step after gradient_step gave gs; c1 is the cache with u cached
step_after_gradient(prob, c1, u_current, gs) ==
  IF gs.panic
  THEN [panic |-> TRUE, u |-> u_current, cache |-> c1, flag |-> FALSE]
  ELSE step_after_projection(c1, gs, projection_step(prob, gs.u))

\* step that copies u_current into work_u_previous only after norm_fpr has
\* been computed
step_copy_late(prob, c, u_current) ==
  [step_after_gradient(prob, c, u_current, gradient_step(prob, c, u_current))
     EXCEPT !.cache.work_u_previous = u_current]

\* FBSEngine::step: a panic, or Ok(flag) with the new iterate and cache
step(prob, c, u_current) ==
  step_after_gradient(prob, [c EXCEPT !.work_u_previous = u_current], u_current,
                      gradient_step(prob, [c EXCEPT !.work_u_previous = u_current], u_current))

----------------------------------------------------------------------------
(* FBS: the optimizer                                                      *)

Const(n, a) == [i \in 1..n |-> a]

\* initial guesses handed to solve
InitialGuesses ==
  {Const(Dim, Zero), Const(Dim, Int2F(4)),
   [i \in 1..Dim |-> IF i = 1 THEN Int2F(2) ELSE Int2F(-1)]}

\* constraint sets of the FBS problems
FBSConstraints ==
  {NoConstraintsNew, ZeroNew,
   RectangleNew(<<Const(Dim, Int2F(-1))>>, <<Const(Dim, One)>>),
   BallInfNew(<<>>, One)}

GradKinds == {"quad", "const", "my_gradient", "nan", "failsmall"}

CostKinds == {"quad", "void", "inf", "fail"}

NoResult ==
  [kind |-> "none", err |-> "none", exit_status |-> "none", num_iter |-> 0,
   norm_fpr |-> Zero, cost_value |-> Zero]

\* the problem of an earlier solve that used the same cache
EarlierProblem == [constraints |-> NoConstraintsNew, gradf |-> "quad", cost |-> "quad"]

\* the cache a converged earlier solve leaves behind: its last step started
\* at u = (1/8, ..., 1/8)
UsedCache(t) == step(EarlierProblem, FBSCacheNew(Dim, Half, t), Const(Dim, Rat(1, 8))).cache

\* the caches handed to FBSOptimizer::new: fresh from FBSCache::new, or
\* reused after an earlier solve
FBSCaches ==
  {FBSCacheNew(Dim, Half, t) : t \in {Rat(1, 4), One}}
    \cup {UsedCache(t) : t \in {Rat(1, 4), One}}

\* the state after FBSCache::new, Problem::new, FBSOptimizer::new and the
\* builder calls with_tolerance, with_max_iter, with_max_duration
InitFBS ==
  /\ pc = "new"
  /\ u \in InitialGuesses
  /\ cache \in FBSCaches
  /\ problem \in [constraints : FBSConstraints, gradf : GradKinds, cost : CostKinds]
  /\ max_iter \in (0..MaxIterBound) \cup {MAX_ITER}
  /\ max_duration \in {<<>>} \cup {<<d>> : d \in 0..MaxDur}
  /\ num_iter = 0
  /\ step_flag = FALSE
  /\ elapsed = 0
  /\ step_calls = 0
  /\ u_entry = u
  /\ solve_entry = [u |-> u, cache |-> cache]
  /\ result = NoResult

----------------------------------------------------------------------------
(* PANOC: cache.  The lbfgs crate and the PANOC engine are outside the     *)
(* sources; the buffer is modelled by its occupancy and its parameters, the *)
(* engine by the steps the specification lists.                            *)

\* vec![T::zero(); n]
Zeros(n) == [i \in 1..n |-> Zero]

\* sy_epsilon and cbfgs_epsilon are kept in units of 1e-10
DEFAULT_SY_EPSILON == One

DEFAULT_CBFGS_EPSILON == Int2F(100)

DEFAULT_CBFGS_ALPHA == One

\* lbfgs::Lbfgs::new(problem_size, lbfgs_memory_size) with the three builders
LbfgsNew(problem_size, lbfgs_memory_size) ==
  [problem_size |-> problem_size, memory |-> lbfgs_memory_size, active_size |-> 0,
   cbfgs_alpha |-> DEFAULT_CBFGS_ALPHA, cbfgs_epsilon |-> DEFAULT_CBFGS_EPSILON,
   sy_epsilon |-> DEFAULT_SY_EPSILON]

\* Lbfgs::reset: the buffer is emptied
LbfgsReset(l) == [l EXCEPT !.active_size = 0]

\* Lbfgs::update_hessian: a pair (s, y) is stored when the buffer accepts it
LbfgsUpdate(l, accepted) ==
  IF accepted /\ l.active_size < l.memory
  THEN [l EXCEPT !.active_size = @ + 1]
  ELSE l

\* PANOCCache::new that lets a zero tolerance through
PANOCCacheNewAccepts_nonnegative(problem_size, tolerance, lbfgs_memory_size) ==
  FGe(tolerance, Zero)

PANOCCacheNewAccepts(problem_size, tolerance, lbfgs_memory_size) == FGt(tolerance, Zero)

PANOCCacheNew(problem_size, tolerance, lbfgs_memory_size) ==
  [gradient_u |-> Zeros(problem_size),
   gradient_u_previous |-> <<>>,
   u_half_step |-> Zeros(problem_size),
   gamma_fpr |-> Zeros(problem_size),
   direction_lbfgs |-> Zeros(problem_size),
   gradient_step |-> Zeros(problem_size),
   u_plus |-> Zeros(problem_size),
   gamma |-> Zero,
   tolerance |-> tolerance,
   norm_gamma_fpr |-> PInf,
   lbfgs |-> LbfgsNew(problem_size, lbfgs_memory_size),
   lhs_ls |-> Zero,
   rhs_ls |-> Zero,
   tau |-> One,
   lipschitz_constant |-> Zero,
   sigma |-> Zero,
   cost_value |-> Zero,
   iteration |-> 0,
   akkt_tolerance |-> <<>>]

set_akkt_toleranceAccepts(akkt_tolerance) == FGt(akkt_tolerance, Zero)

\* set_akkt_tolerance without the allocation of gradient_u_previous
set_akkt_tolerance_unallocated(c, akkt_tolerance) ==
  [c EXCEPT !.akkt_tolerance = <<akkt_tolerance>>]

set_akkt_tolerance(c, akkt_tolerance) ==
  [c EXCEPT !.akkt_tolerance = <<akkt_tolerance>>,
            !.gradient_u_previous = <<Zeros(Len(c.gradient_step))>>]

cache_previous_gradient(c) ==
  IF c.iteration >= 1 /\ c.gradient_u_previous # <<>>
  THEN [c EXCEPT !.gradient_u_previous = <<c.gradient_u>>]
  ELSE c

\* the three-way zip of akkt_residual stops at the shortest slice
ZipLen3(a, b, c) == IF ZipLen(a, b) < Len(c) THEN ZipLen(a, b) ELSE Len(c)

akkt_residual(c) ==
  IF c.gradient_u_previous # <<>>
  THEN LET df_previous == c.gradient_u_previous[1]
           n == ZipLen3(c.gamma_fpr, c.gradient_u, df_previous)
           t == [i \in 1..n |->
                   FAdd(c.gamma_fpr[i], FMul(c.gamma, FSub(c.gradient_u[i], df_previous[i])))]
       IN  FSqrt(norm2_squared(t))
  ELSE Zero

\* fpr_exit_condition with the tolerance scaled by gamma
fpr_exit_condition_scaled(c) == FLt(c.norm_gamma_fpr, FMul(c.gamma, c.tolerance))

fpr_exit_condition(c) == FLt(c.norm_gamma_fpr, c.tolerance)

\* akkt_exit_condition that never looks at the residual
akkt_exit_condition_unchecked(c) == TRUE

akkt_exit_condition(c) ==
  IF c.akkt_tolerance # <<>>
  THEN FLt(akkt_residual(c), c.akkt_tolerance[1])
  ELSE TRUE

\* exit_condition without the FPR test
exit_condition_akkt_only(c) == akkt_exit_condition(c)

exit_condition(c) == fpr_exit_condition(c) /\ akkt_exit_condition(c)

reset(c) ==
  [c EXCEPT !.lbfgs = LbfgsReset(@),
            !.lhs_ls = Zero,
            !.rhs_ls = Zero,
            !.tau = One,
            !.lipschitz_constant = Zero,
            !.sigma = Zero,
            !.cost_value = Zero,
            !.iteration = 0,
            !.gamma = Zero]

with_cbfgs_parameters(c, alpha, epsilon_, sy_epsilon) ==
  [c EXCEPT !.lbfgs = [@ EXCEPT !.cbfgs_alpha = alpha,
                                !.cbfgs_epsilon = epsilon_,
                                !.sy_epsilon = sy_epsilon]]

\* the coefficient gamma_l_coeff of gamma = gamma_l_coeff / L
GAMMA_L_COEFF == Half

\* PANOC engine, INIT: evaluate f and grad f at u0, estimate L, set gamma and
\* sigma = gamma*(1 - gamma*L)/2
engine_init(c, w, L) ==
  LET gamma == FDiv(GAMMA_L_COEFF, L)
  IN  [c EXCEPT !.cost_value = CostF("quad", w, @).c,
                !.gradient_u = GradF("quad", w, @).g,
                !.lipschitz_constant = L,
                !.gamma = gamma,
                !.sigma = FMul(FMul(gamma, FSub(One, FMul(gamma, L))), Half)]

\* PANOC engine, STEP up to the commit of u_plus: previous gradient cached,
\* forward-backward step, LBFGS direction d, line search with the accepted
\* tau, u_plus = u - (1 - tau)*gamma_fpr + tau*d, iteration counted
engine_step_cache(c, w, tau, accepted) ==
  LET c1 == cache_previous_gradient(c)
      gradient_step_ == [i \in 1..Len(w) |-> FSub(w[i], FMul(c1.gamma, c1.gradient_u[i]))]
      u_half_step == NoConstraintsProject(gradient_step_)
      gamma_fpr == [i \in 1..Len(w) |-> FSub(w[i], u_half_step[i])]
      d == [i \in 1..Len(w) |-> FNeg(gamma_fpr[i])]
      u_plus == [i \in 1..Len(w) |->
                   FAdd(FSub(w[i], FMul(FSub(One, tau), gamma_fpr[i])), FMul(tau, d[i]))]
      sq == norm2_squared(gamma_fpr)
  IN  [c1 EXCEPT !.gradient_step = gradient_step_,
                 !.u_half_step = u_half_step,
                 !.gamma_fpr = gamma_fpr,
                 !.norm_gamma_fpr = FSqrt(sq),
                 !.lbfgs = LbfgsUpdate(@, accepted),
                 !.direction_lbfgs = d,
                 !.tau = tau,
                 !.u_plus = u_plus,
                 !.rhs_ls = FSub(c1.cost_value, FMul(c1.sigma, sq)),
                 !.lhs_ls = CostF("quad", u_plus, Zero).c,
                 !.cost_value = CostF("quad", u_plus, Zero).c,
                 !.gradient_u = GradF("quad", u_plus, c1.gradient_u).g,
                 !.iteration = @ + 1]

\* the values no PANOC run has produced yet
NoReturn == [op |-> "none", value |-> FALSE]

PanocOff ==
  /\ pcache = PANOCCacheNew(0, One, 0)
  /\ cargs = [problem_size |-> 0, tolerance |-> One, lbfgs_memory_size |-> 0]
  /\ cu = <<>>
  /\ cret = NoReturn
  /\ cphase = "off"

ProjOff ==
  /\ pset = NoConstraintsNew
  /\ px = <<>>
  /\ py = <<>>
  /\ pphase = "off"

Init == InitFBS /\ ProjOff /\ PanocOff

\* a reading of now.elapsed(): the clock never runs backwards
Readings == {e \in elapsed..(elapsed + 1) : e <= MaxElapsed}

\* one call of self.fbs_engine.step(u)? inside solve
CallStep ==
  \E r \in {step(problem, cache, u)} :
    /\ step_calls' = step_calls + 1
    /\ u_entry' = u
    /\ u' = r.u
    /\ cache' = r.cache
    /\ step_flag' = r.flag
    /\ pc' = IF r.panic THEN "done" ELSE "loop"
    /\ result' = IF r.panic THEN [NoResult EXCEPT !.kind = "panic"] ELSE result

\* solve, up to the first loop test: init, num_iter = 0, the first step
SolveBegin ==
  /\ pc = "new"
  /\ num_iter' = 0
  /\ CallStep
  /\ elapsed' \in Readings
  /\ UNCHANGED <<problem, max_iter, max_duration, solve_entry>>
  /\ UNCHANGED proj_vars
  /\ UNCHANGED panoc_vars

\* the loop condition of solve, with e the value of now.elapsed()
LoopCondition(e) ==
  IF max_duration # <<>>
  THEN step_flag /\ num_iter < max_iter /\ max_duration[1] <= e
  ELSE step_flag /\ num_iter < max_iter

\* one iteration of the while loop
LoopIterate ==
  /\ pc = "loop"
  /\ \E e \in Readings :
       /\ LoopCondition(e)
       /\ elapsed' = e
  /\ num_iter' = num_iter + 1
  /\ CallStep
  /\ UNCHANGED <<problem, max_iter, max_duration, solve_entry>>
  /\ UNCHANGED proj_vars
  /\ UNCHANGED panoc_vars

\* the finiteness test without the test of the iterate
NotFinite_cost_only(w, cost_value) == ~IsFiniteF(cost_value)

\* the test !is_finite(u) || !cost_value.is_finite() of solve
NotFinite(w, cost_value) == ~is_finite(w) \/ ~IsFiniteF(cost_value)

\* the loop test fails: cost at the solution, finiteness check, status
SolveFinish ==
  /\ pc = "loop"
  /\ \E e \in Readings :
       /\ ~LoopCondition(e)
       /\ elapsed' = e
  /\ LET c == CostF(problem.cost, u, Zero)
     IN  result' =
           IF ~c.ok THEN [NoResult EXCEPT !.kind = "Err", !.err = "Cost"]
           ELSE IF NotFinite(u, c.c)
           THEN [NoResult EXCEPT !.kind = "Err", !.err = "NotFiniteComputation"]
           ELSE [kind |-> "Ok", err |-> "none",
                 exit_status |-> IF num_iter < max_iter THEN "Converged"
                                 ELSE "NotConvergedIterations",
                 num_iter |-> num_iter,
                 norm_fpr |-> cache.norm_fpr,
                 cost_value |-> c.c]
  /\ pc' = "done"
  /\ UNCHANGED <<u, cache, problem, max_iter, max_duration, num_iter, step_flag,
                 step_calls, u_entry, solve_entry>>
  /\ UNCHANGED proj_vars
  /\ UNCHANGED panoc_vars

\* the tail of solve without max_duration: cost, finiteness test, status
solve_finish(prob, c, w, n, maxit) ==
  LET cst == CostF(prob.cost, w, Zero)
  IN  [u |-> w,
       result |->
         IF ~cst.ok THEN [NoResult EXCEPT !.kind = "Err", !.err = "Cost"]
         ELSE IF NotFinite(w, cst.c)
         THEN [NoResult EXCEPT !.kind = "Err", !.err = "NotFiniteComputation"]
         ELSE [kind |-> "Ok", err |-> "none",
               exit_status |-> IF n < maxit THEN "Converged"
                               ELSE "NotConvergedIterations",
               num_iter |-> n,
               norm_fpr |-> c.norm_fpr,
               cost_value |-> cst.c]]

\* solve without max_duration from the return r of a step on: the loop
\* while step_flag && num_iter < max_iter, then the tail
RECURSIVE solve_loop(_, _, _, _)
solve_loop(prob, r, n, maxit) ==
  IF r.panic THEN [u |-> r.u, result |-> [NoResult EXCEPT !.kind = "panic"]]
  ELSE IF r.flag /\ n < maxit
  THEN solve_loop(prob, step(prob, r.cache, r.u), n + 1, maxit)
  ELSE solve_finish(prob, r.cache, r.u, n, maxit)

\* FBSOptimizer::solve without max_duration as a function of the problem,
\* the cache, the initial guess and max_iter: the final u and the return
solve(prob, c, w, maxit) == solve_loop(prob, step(prob, c, w), 0, maxit)

Next == SolveBegin \/ LoopIterate \/ SolveFinish

Spec == Init /\ [][Next]_vars

----------------------------------------------------------------------------
(* Projection runs: a constraint set is constructed, two inputs x and y are *)
(* projected, and the image of x is projected again                        *)

\* coordinates of the planar inputs are k/2 with |k| <= MaxCoord
MaxCoord == 3

\* coordinates of the 3-dimensional inputs are integers in -1..MaxCoord3
MaxCoord3 == 2

\* inputs with a rational norm are k/q times a direction, k <= MaxScale
MaxScale == 2

Scale(v, a) == [i \in 1..Len(v) |-> FMul(a, v[i])]

VAdd(v, w) == [i \in 1..Len(v) |-> FAdd(v[i], w[i])]

IntVec(v) == [i \in 1..Len(v) |-> Int2F(v[i])]

Grid2 == {<<Rat(a, 2), Rat(b, 2)>> : a, b \in -MaxCoord..MaxCoord}

SmallGrid2 == {IntVec(<<a, b>>) : a, b \in -1..1}

Grid3 == {IntVec(<<a, b, c>>) : a, b, c \in -1..MaxCoord3}

\* 3-vectors on which the scan of Simplex::project spills v and the sweep
\* takes elements back
SpillGrid3 == {<<Rat(a, 2), Rat(b, 2), Rat(c, 2)>> : a, b, c \in {0, 2, 5}}

\* 4-vectors on which a pass of the cleanup loop removes two elements, or
\* two passes in a row remove one
CleanupGrid4 ==
  {<<Rat(a, 2), Rat(b, 2), Rat(c, 2), Rat(d, 2)>> : a, b, c, d \in 0..2}

SmallGrid3 == {IntVec(<<a, b, c>>) : a, b, c \in {-1, 1}}

\* integer directions of integer length
Directions == {<<1, 0>>, <<0, 1>>, <<-1, 0>>, <<3, 4>>, <<-4, 3>>, <<3, -4>>}

\* planar vectors of rational length, down to lengths below epsilon
Radial == {Scale(IntVec(d), Rat(k, q)) : d \in Directions, k \in 0..MaxScale, q \in {1, 2, 5}}

SmallRadial == {Scale(IntVec(d), Int2F(k)) : d \in {<<1, 0>>, <<0, 1>>, <<3, -4>>}, k \in 0..1}

Centre2 == IntVec(<<1, -1>>)

Centre3 == IntVec(<<1, 0, -1>>)

\* the sets the constructors build, with the parameters their assertions admit
ProjSets ==
  {NoConstraintsNew, ZeroNew}
  \cup {RectangleNew(<<IntVec(<<-1, 0>>)>>, <<IntVec(<<1, 1>>)>>),
        RectangleNew(<<IntVec(<<-1, 0>>)>>, <<>>),
        RectangleNew(<<>>, <<IntVec(<<1, 1>>)>>),
        RectangleNew(<<IntVec(<<1, 1>>)>>, <<IntVec(<<-1, 0>>)>>)}
  \cup {Ball2New(c, One) : c \in {<<>>, <<Centre2>>}}
  \cup {BallInfNew(c, One) : c \in {<<>>, <<Centre2>>}}
  \cup {Ball1New(c, One) : c \in {<<>>, <<Centre3>>}}
  \cup {Sphere2New(c, Int2F(3)) : c \in {<<>>, <<Centre2>>}}
  \cup {SimplexNew(a) : a \in {Half, One, Int2F(2)}}
  \cup {SecondOrderConeNew(a) : a \in {One, Int2F(2), Half}}
  \cup {HyperplaneNew(IntVec(c), Int2F(b)) : c \in {<<1, 2>>, <<0, -1>>, <<0, 0>>}, b \in 0..1}

\* constructor calls with arguments an assertion rejects
RejectedArgs ==
  {[BlankSet EXCEPT !.kind = "Rectangle"],
   [BlankSet EXCEPT !.kind = "Rectangle", !.xmin = <<IntVec(<<-1, 0>>)>>, !.xmax = <<IntVec(<<1>>)>>]}
  \cup {[BlankSet EXCEPT !.kind = k, !.center = c, !.radius = r] :
          k \in {"Ball2", "BallInf", "Ball1", "Sphere2"}, c \in {<<>>, <<Centre2>>},
          r \in {Zero, Int2F(-1), NaN}}
  \cup {[BlankSet EXCEPT !.kind = k, !.alpha = a] :
          k \in {"Simplex", "SecondOrderCone"}, a \in {Zero, Int2F(-1), NaN}}

\* the constructor calls of a run: the arguments of the sets of ProjSets and
\* the rejected ones
ProjArgs ==
  {[c EXCEPT !.normal_vector_squared_norm = Zero] : c \in ProjSets} \cup RejectedArgs

Shifted(S, c) == IF c = <<>> THEN S ELSE {VAdd(v, c[1]) : v \in S}

\* (z, t) with z of rational length
ConeInputs(Z, T) == {Append(z, Int2F(t)) : z \in Z, t \in T}

Grid1 == {<<Rat(a, 2)>> : a \in -MaxCoord..MaxCoord}

\* the inputs x of a set
InputsX(c) ==
  CASE c.kind \in {"Ball2", "Sphere2"} -> Shifted(Radial, c.center)
    [] c.kind = "Simplex" -> Grid3 \cup SpillGrid3 \cup Grid2 \cup Grid1 \cup CleanupGrid4
    [] c.kind = "Ball1" -> Grid3
    [] c.kind = "SecondOrderCone" -> ConeInputs(Radial, -MaxScale..MaxScale)
    [] c.kind = "BallInf" /\ c.center = <<>> -> Grid2 \cup {<<Int2F(2), Rat(-1, 2), Int2F(3)>>}
    [] OTHER -> Grid2

\* the inputs y of a set, of length n
InputsY(c, n) ==
  CASE c.kind \in {"Ball2", "Sphere2"} -> Shifted(SmallRadial, c.center)
    [] c.kind = "SecondOrderCone" -> ConeInputs(SmallRadial, {-1, 1})
    [] OTHER -> IF n = 4 THEN {IntVec(<<0, 0, 0, 0>>), IntVec(<<1, -1, 0, 1>>)}
                ELSE IF n = 3 THEN SmallGrid3
                ELSE IF n = 2 THEN SmallGrid2
                ELSE {<<Zero>>, <<One>>}

FBSOff ==
  /\ pc = "off"
  /\ u = <<>>
  /\ cache = FBSCacheNew(0, Half, One)
  /\ problem = [constraints |-> NoConstraintsNew, gradf |-> "quad", cost |-> "quad"]
  /\ max_iter = 0
  /\ max_duration = <<>>
  /\ num_iter = 0
  /\ step_flag = FALSE
  /\ elapsed = 0
  /\ step_calls = 0
  /\ u_entry = <<>>
  /\ solve_entry = [u |-> <<>>, cache |-> FBSCacheNew(0, Half, One)]
  /\ result = NoResult

InitProj ==
  /\ FBSOff
  /\ PanocOff
  /\ pset \in ProjArgs
  /\ \E x \in InputsX(pset) :
       /\ px = <<x>>
       /\ \E y \in InputsY(pset, Len(x)) : py = <<y>>
  /\ pphase = "args"

\* the constructor call: pset holds its arguments before and the constructed
\* set after; a failed assertion panics
Construct ==
  /\ pphase = "args"
  /\ IF NewAccepts(pset)
     THEN pset' = New(pset) /\ pphase' = "input"
     ELSE pset' = pset /\ pphase' = "panic"
  /\ UNCHANGED <<px, py>>
  /\ UNCHANGED fbs_vars
  /\ UNCHANGED panoc_vars

\* set.project(&mut x); set.project(&mut y)
ProjectBoth ==
  /\ pphase = "input"
  /\ px' = <<px[1], Project(pset, px[1])>>
  /\ py' = <<py[1], Project(pset, py[1])>>
  /\ pphase' = "once"
  /\ UNCHANGED pset
  /\ UNCHANGED fbs_vars
  /\ UNCHANGED panoc_vars

\* set.project(&mut x) on the projected x
ProjectAgain ==
  /\ pphase = "once"
  /\ px' = Append(px, Project(pset, px[2]))
  /\ pphase' = "twice"
  /\ UNCHANGED <<pset, py>>
  /\ UNCHANGED fbs_vars
  /\ UNCHANGED panoc_vars

NextProj == Construct \/ ProjectBoth \/ ProjectAgain

SpecProj == InitProj /\ [][NextProj]_vars

----------------------------------------------------------------------------
(* PANOC runs: a cache is constructed, its methods are called in any order  *)
(* and an engine bound to it initialises and steps                         *)

\* the e1 axis scaled by a
Axis(n, a) == [i \in 1..n |-> IF i = 1 THEN a ELSE Zero]

Tolerances == {Rat(1, 4), One}

\* the arguments of PANOCCache::new, a zero and a negative tolerance included
CacheArgs ==
  [problem_size : 1..MaxProblemSize,
   tolerance : Tolerances \cup {Zero, Int2F(-1)},
   lbfgs_memory_size : {1}]

InitPanoc ==
  /\ FBSOff
  /\ ProjOff
  /\ cargs \in CacheArgs
  /\ pcache = PANOCCacheNew(0, One, 0)
  /\ cu = <<>>
  /\ cret = NoReturn
  /\ cphase = "args"

Live == cphase \in {"live", "running"}

\* PANOCCache::new(problem_size, tolerance, lbfgs_memory_size)
PANOCCacheNewCall ==
  /\ cphase = "args"
  /\ IF PANOCCacheNewAccepts(cargs.problem_size, cargs.tolerance, cargs.lbfgs_memory_size)
     THEN /\ pcache' = PANOCCacheNew(cargs.problem_size, cargs.tolerance,
                                     cargs.lbfgs_memory_size)
          /\ cphase' = "live"
     ELSE /\ pcache' = pcache
          /\ cphase' = "panic"
  /\ cret' = [op |-> "new", value |-> FALSE]
  /\ UNCHANGED <<cargs, cu>>
  /\ UNCHANGED fbs_vars
  /\ UNCHANGED proj_vars

\* cache.set_akkt_tolerance(t)
SetAkktTolerance ==
  /\ Live
  /\ \E t \in Tolerances \cup {Zero} :
       IF set_akkt_toleranceAccepts(t)
       THEN /\ pcache' = set_akkt_tolerance(pcache, t)
            /\ cphase' = cphase
       ELSE /\ pcache' = pcache
            /\ cphase' = "panic"
  /\ cret' = [op |-> "set_akkt_tolerance", value |-> FALSE]
  /\ UNCHANGED <<cargs, cu>>
  /\ UNCHANGED fbs_vars
  /\ UNCHANGED proj_vars

\* cache.cache_previous_gradient()
CachePreviousGradient ==
  /\ Live
  /\ pcache' = cache_previous_gradient(pcache)
  /\ cret' = [op |-> "cache_previous_gradient", value |-> FALSE]
  /\ UNCHANGED <<cargs, cu, cphase>>
  /\ UNCHANGED fbs_vars
  /\ UNCHANGED proj_vars

\* cache.exit_condition()
ExitCondition ==
  /\ Live
  /\ cret' = [op |-> "exit_condition", value |-> exit_condition(pcache)]
  /\ UNCHANGED <<pcache, cargs, cu, cphase>>
  /\ UNCHANGED fbs_vars
  /\ UNCHANGED proj_vars

\* cache.reset(); the engine has to be initialised again before it steps
Reset ==
  /\ Live
  /\ pcache' = reset(pcache)
  /\ cphase' = "live"
  /\ cret' = [op |-> "reset", value |-> FALSE]
  /\ UNCHANGED <<cargs, cu>>
  /\ UNCHANGED fbs_vars
  /\ UNCHANGED proj_vars

\* cache.with_cbfgs_parameters(2.0, 1e-6, 1e-12), before an engine is bound
WithCbfgsParameters ==
  /\ cphase = "live"
  /\ pcache' = with_cbfgs_parameters(pcache, Int2F(2), Int2F(10000), Rat(1, 100))
  /\ cret' = [op |-> "with_cbfgs_parameters", value |-> FALSE]
  /\ UNCHANGED <<cargs, cu, cphase>>
  /\ UNCHANGED fbs_vars
  /\ UNCHANGED proj_vars

\* panoc_engine.init(&mut u)
EngineInit ==
  /\ Live
  /\ \E a \in {Zero, Int2F(2)}, L \in {One, Int2F(2)} :
       LET w == Axis(cargs.problem_size, a)
       IN  /\ cu' = w
           /\ pcache' = engine_init(pcache, w, L)
  /\ cphase' = "running"
  /\ cret' = [op |-> "init", value |-> FALSE]
  /\ UNCHANGED cargs
  /\ UNCHANGED fbs_vars
  /\ UNCHANGED proj_vars

\* panoc_engine.step(&mut u): Ok(true) to continue, Ok(false) when done; the
\* line search takes the full step with the new pair accepted into the
\* LBFGS buffer, or halves tau with the pair rejected
EngineStep ==
  /\ cphase = "running"
  /\ pcache.iteration < MaxIteration
  /\ \E ls \in {[tau |-> One, accepted |-> TRUE], [tau |-> Half, accepted |-> FALSE]} :
       \E c \in {engine_step_cache(pcache, cu, ls.tau, ls.accepted)} :
         /\ pcache' = c
         /\ cu' = c.u_plus
         /\ cret' = [op |-> "step", value |-> ~exit_condition(c)]
  /\ UNCHANGED <<cargs, cphase>>
  /\ UNCHANGED fbs_vars
  /\ UNCHANGED proj_vars

NextPanoc ==
  \/ PANOCCacheNewCall
  \/ SetAkktTolerance
  \/ CachePreviousGradient
  \/ ExitCondition
  \/ Reset
  \/ WithCbfgsParameters
  \/ EngineInit
  \/ EngineStep

SpecPanoc == InitPanoc /\ [][NextPanoc]_vars

----------------------------------------------------------------------------
(* Object construction: a run builds either a constraint set or a PANOC    *)
(* cache and goes on using it                                              *)

InitObjects == InitProj \/ InitPanoc

NextObjects == NextProj \/ NextPanoc

SpecObjects == InitObjects /\ [][NextObjects]_vars

----------------------------------------------------------------------------
(* Properties of FBSOptimizer::solve and FBSEngine::step (specification    *)
(* Spec)                                                                   *)

Returned == pc = "done" /\ result.kind = "Ok"

\* C1: solve returns Converged if and only if the last step it executed
\* returned false before the iteration cap was hit; every other Ok outcome
\* carries a non-converged status
C1_ConvergedIffLastStepFalse ==
  Returned =>
    /\ (result.exit_status = "Converged") <=> (~step_flag /\ num_iter < max_iter)
    /\ result.exit_status \in {"Converged", "NotConvergedIterations", "NotConvergedOutOfTime"}

\* C2: after a successful solve the final norm_fpr is at most the tolerance,
\* or the status reports non-convergence
C2_FprWithinToleranceOrNotConverged ==
  Returned =>
    \/ FLe(result.norm_fpr, cache.tolerance)
    \/ result.exit_status \in {"NotConvergedIterations", "NotConvergedOutOfTime"}

\* C3: one call of solve invokes the engine's step at most max_iter times
C3_AtMostMaxIterSteps == step_calls <= max_iter

\* C4: with max_duration = Some(dur), solve makes another step exactly when
\* the last step returned true, the iteration cap is not reached and the
\* elapsed time is still below dur
C4_TimeCapStops ==
  [][(pc = "loop" /\ max_duration # <<>>) =>
       ((step_calls' = step_calls + 1) <=>
          (step_flag /\ num_iter < max_iter /\ elapsed' < max_duration[1]))]_vars

\* the gradient callback failed in the last step
GradientFailed ==
  step_calls > 0 /\ ~GradF(problem.gradf, u_entry, cache.work_gradient_u).ok

\* the loop ended and the cost callback failed
CostFailed == ~GradientFailed /\ ~CostF(problem.cost, u, Zero).ok

\* C5: a failure Err(e) of the gradient callback or of the cost callback is
\* returned by solve as that Err(e), not raised as a panic
C5_CallbackErrorReturned ==
  (pc = "done" /\ (GradientFailed \/ CostFailed)) =>
    (result.kind = "Err" /\ result.err = "Cost")

\* the final cost value, as the cost callback leaves it
FinalCost == CostF(problem.cost, u, Zero).c

LoopEnded == pc = "done" /\ result.kind # "panic"

\* C6 as stated: after the main loop, a non-finite iterate or a non-finite
\* final cost makes solve return Err(NotFiniteComputation), and Ok(status)
\* is returned only when both are finite
C6_NonFiniteIsError ==
  LoopEnded =>
    /\ NotFinite(u, FinalCost) =>
         (result.kind = "Err" /\ result.err = "NotFiniteComputation")
    /\ result.kind = "Ok" => (is_finite(u) /\ IsFiniteF(FinalCost))

\* C6 amended: when the cost callback succeeds, a non-finite iterate or a
\* non-finite final cost makes solve return Err(NotFiniteComputation); Ok(status)
\* is returned only when both are finite
C6_NonFiniteIsErrorWhenCostOk ==
  LoopEnded =>
    /\ (CostF(problem.cost, u, Zero).ok /\ NotFinite(u, FinalCost)) =>
         (result.kind = "Err" /\ result.err = "NotFiniteComputation")
    /\ result.kind = "Ok" => (is_finite(u) /\ IsFiniteF(FinalCost))

\* solve has returned NotFiniteComputation for a non-finite iterate with a
\* finite cost
C6_Witness ==
  /\ pc = "done"
  /\ result.kind = "Err"
  /\ result.err = "NotFiniteComputation"
  /\ ~is_finite(u)
  /\ IsFiniteF(FinalCost)

\* m is the largest |a_i - b_i|
IsInfNormOfDiff(m, a, b) ==
  /\ \A i \in 1..Len(a) : FLe(FAbs(FSub(a[i], b[i])), m)
  /\ \E i \in 1..Len(a) : FEq(FAbs(FSub(a[i], b[i])), m)

\* C7: a successful step stores the entry value of u in work_u_previous,
\* replaces u by proj_C(u - gamma*grad f(u)), sets norm_fpr to the infinity
\* norm of (new u - entry u), and returns true iff norm_fpr > tolerance
C7_StepContract ==
  pc = "loop" =>
    LET g == cache.work_gradient_u
        moved == [i \in 1..Len(u_entry) |-> FSub(u_entry[i], FMul(cache.gamma, g[i]))]
    IN  /\ g = GradF(problem.gradf, u_entry, g).g
        /\ cache.work_u_previous = u_entry
        /\ u = Project(problem.constraints, moved)
        /\ (is_finite(u) /\ is_finite(u_entry)) =>
             IsInfNormOfDiff(cache.norm_fpr, u, u_entry)
        /\ step_flag <=> FGt(cache.norm_fpr, cache.tolerance)

\* a later step has moved the iterate by exactly the tolerance and returned
\* false
C7_Witness ==
  /\ pc = "loop"
  /\ step_calls >= 2
  /\ u # u_entry
  /\ FEq(cache.norm_fpr, cache.tolerance)
  /\ ~step_flag

----------------------------------------------------------------------------
(* Properties of the projections (specification SpecProj)                  *)

\* both inputs have been projected
Projected == pphase \in {"once", "twice"}

\* float equality of two slices
VecEq(a, b) == Len(a) = Len(b) /\ \A i \in 1..Len(a) : FEq(a[i], b[i])

\* C8: for every constraint set and every input x, project(project(x)) =
\* project(x)
C8_ProjectionIdempotent == pphase = "twice" => VecEq(px[3], px[2])

\* C9 as stated: for every convex set and every pair x, y the projections
\* satisfy ||project(x) - project(y)||_2 <= ||x - y||_2 (compared as squares)
C9_ProjectionNonexpansive ==
  (Projected /\ is_convex(pset)) =>
    FLe(norm2_squared_diff(px[2], py[2]), norm2_squared_diff(px[1], py[1]))

\* a Hyperplane constructed with the zero vector as its normal vector
ZeroNormal == pset.kind = "Hyperplane" /\ pset.normal_vector_squared_norm = Zero

\* C9 amended: for every convex set other than a Hyperplane with a zero normal
\* vector, and every pair x, y, ||project(x) - project(y)||_2 <= ||x - y||_2
C9_NonexpansiveNonzeroNormal ==
  (Projected /\ is_convex(pset) /\ ~ZeroNormal) =>
    FLe(norm2_squared_diff(px[2], py[2]), norm2_squared_diff(px[1], py[1]))

\* both inputs lie outside a second-order cone, are projected on its
\* boundary away from the apex, and end strictly closer to each other
C9_Witness ==
  /\ pphase = "once"
  /\ pset.kind = "SecondOrderCone"
  /\ px[2] # px[1]
  /\ py[2] # py[1]
  /\ px[2] # py[2]
  /\ FGt(px[2][3], Zero)
  /\ FGt(py[2][3], Zero)
  /\ FLt(norm2_squared_diff(px[2], py[2]), norm2_squared_diff(px[1], py[1]))

\* C10: the output y of Simplex::project has every y_i >= 0 and the sum of
\* the y_i equal to alpha
C10_SimplexFeasible ==
  (Projected /\ pset.kind = "Simplex") =>
    /\ \A i \in 1..Len(px[2]) : FGe(px[2][i], Zero)
    /\ FEq(SumSeq(px[2]), pset.alpha)

\* a simplex projection that sets a coordinate of a 3-vector to zero and
\* keeps two positive
C10_Witness ==
  /\ pphase = "once"
  /\ pset.kind = "Simplex"
  /\ Len(px[1]) = 3
  /\ px[2] # px[1]
  /\ \E i \in 1..3 : px[2][i] = Zero /\ FGt(px[1][i], Zero)
  /\ \E i, j \in 1..3 : i # j /\ FGt(px[2][i], Zero) /\ FGt(px[2][j], Zero)

\* the permutation that sorts x in descending order
SortDesc(x) ==
  LET n == Len(x)
      p == CHOOSE q \in [1..n -> 1..n] :
             /\ \A i, j \in 1..n : i # j => q[i] # q[j]
             /\ \A i \in 1..(n - 1) : FGe(x[q[i]], x[q[i + 1]])
  IN  [i \in 1..n |-> x[p[i]]]

\* the threshold of the sort-based projector on the simplex of size a: with
\* u = x sorted in descending order, (u_1 + ... + u_k - a)/k for the largest
\* k with u_k above it
ReferenceRho(a, x) ==
  LET w == SortDesc(x)
      T(j) == FDiv(FSub(SumSeq(SubSeq(w, 1, j)), a), Int2F(j))
      K == {j \in 1..Len(x) : FGt(w[j], T(j))}
      k == CHOOSE j \in K : \A i \in K : i <= j
  IN  T(k)

ReferenceProject(a, x) ==
  LET r == ReferenceRho(a, x)
  IN  [i \in 1..Len(x) |-> FMax(Zero, FSub(x[i], r))]

\* C11: the output of Simplex::project equals max(0, x_i - rho*) for the
\* threshold rho* of the sort-based reference projector, and rho* is the
\* threshold at which these values sum to alpha
C11_SimplexIsEuclideanProjection ==
  (Projected /\ pset.kind = "Simplex") =>
    /\ VecEq(px[2], ReferenceProject(pset.alpha, px[1]))
    /\ VecEq(py[2], ReferenceProject(pset.alpha, py[1]))
    /\ FEq(SumSeq(ReferenceProject(pset.alpha, px[1])), pset.alpha)

\* a projection of a 3-vector in which the scan spills v to v_tilde and the
\* sweep takes an element of v_tilde back into v
C11_Witness ==
  /\ pphase = "once"
  /\ pset.kind = "Simplex"
  /\ Len(px[1]) = 3
  /\ LET s2 == SimplexScan(px[1], pset.alpha, 3)
     IN  /\ s2.v_tilde # <<>>
         /\ Len(SimplexSweep(s2, Len(s2.v_tilde)).v) > Len(s2.v)
  /\ px[2] # px[1]

\* the centre of a ball, the origin when none is given
CentreOf(c, n) == IF c.center = <<>> THEN [i \in 1..n |-> Zero] ELSE c.center[1]

\* x - c
Diff(x, c) == [i \in 1..Len(x) |-> FSub(x[i], c[i])]

\* y is within the ball of pset in the norm of its kind
InBall(y) ==
  LET d == Diff(y, CentreOf(pset, Len(y)))
  IN  CASE pset.kind = "Ball1" -> FLe(norm1(d), pset.radius)
        [] pset.kind = "Ball2" -> FLe(norm2_squared(d), FMul(pset.radius, pset.radius))
        [] pset.kind = "BallInf" -> \A i \in 1..Len(d) : FLe(FAbs(d[i]), pset.radius)

\* C12: the outputs of Ball1::project, Ball2::project and BallInf::project
\* are within distance r of the centre in the 1-, 2- and infinity-norm
C12_BallNormBounds ==
  (Projected /\ pset.kind \in {"Ball1", "Ball2", "BallInf"}) =>
    (InBall(px[2]) /\ InBall(py[2]))

\* a point outside a Ball2 with a centre is moved to distance exactly r
C12_Witness ==
  /\ pphase = "once"
  /\ pset.kind = "Ball2"
  /\ pset.center # <<>>
  /\ px[2] # px[1]
  /\ FEq(norm2_squared_diff(px[2], pset.center[1]), FMul(pset.radius, pset.radius))

\* the sign of a: 1, -1, or 0 at zero
Sign(a) == IF FGt(a, Zero) THEN One ELSE IF FLt(a, Zero) THEN FNeg(One) ELSE Zero

\* y is x with every coordinate farther than r from the centre set to
\* c_i + sign(x_i - c_i)*r
ClampedPerCoordinate(x, y) ==
  LET c == CentreOf(pset, Len(x))
  IN  \A i \in 1..Len(x) :
        IF FLe(FAbs(FSub(x[i], c[i])), pset.radius)
        THEN y[i] = x[i]
        ELSE FEq(y[i], FAdd(c[i], FMul(Sign(FSub(x[i], c[i])), pset.radius)))

\* the spec's example: no centre, r = 1, x = [2, -0.5, 3]
BallInfExample == <<Int2F(2), Rat(-1, 2), Int2F(3)>>

ConeCases(alpha, x, y) ==
  LET n == Len(x)
      t == x[n]
      nz == FSqrt(norm2_squared(SubSeq(x, 1, n - 1)))
      beta == FDiv(FAdd(FMul(alpha, nz), t), FAdd(FMul(alpha, alpha), One))
  IN  /\ IF FLe(FMul(alpha, nz), FNeg(t))
         THEN y = [i \in 1..n |-> Zero]
         ELSE IF FGt(nz, FMul(alpha, t))
         THEN /\ \A i \in 1..(n - 1) : FEq(y[i], FMul(x[i], FDiv(FMul(alpha, beta), nz)))
              /\ FEq(y[n], beta)
         ELSE y = x
      /\ FGe(y[n], Zero)
      /\ FLe(norm2_squared(SubSeq(y, 1, n - 1)), FMul(FMul(alpha, y[n]), FMul(alpha, y[n])))

\* C14: SecondOrderCone::project returns zeros when alpha*||z|| <= -t, else
\* (z*alpha*beta/||z||, beta) when ||z|| > alpha*t, else x; the output
\* satisfies ||z|| <= alpha*t
C14_ConeThreeCases ==
  (Projected /\ pset.kind = "SecondOrderCone") =>
    /\ ConeCases(pset.alpha, px[1], px[2])
    /\ ConeCases(pset.alpha, py[1], py[2])

\* x is outside the cone and its polar and is projected on the boundary with
\* beta > 0; y is projected on the apex
C14_Witness ==
  /\ pphase = "once"
  /\ pset.kind = "SecondOrderCone"
  /\ px[2] # px[1]
  /\ FGt(px[2][3], Zero)
  /\ FLt(px[1][3], Zero)
  /\ py[2] # py[1]
  /\ py[2] = <<Zero, Zero, Zero>>

\* y = x - ((<c,x> - b)/||c||^2)*c lies on the hyperplane <c, y> = b of pset
OnHyperplane(x, y) ==
  LET c == pset.normal_vector
      f == FDiv(FSub(inner_product(c, x), pset.offset), pset.normal_vector_squared_norm)
  IN  /\ VecEq(y, [i \in 1..Len(x) |-> FSub(x[i], FMul(f, c[i]))])
      /\ FEq(inner_product(c, y), pset.offset)

OnSphere(x, y) ==
  LET c == CentreOf(pset, Len(x))
      r == pset.radius
      dist == FSqrt(norm2_squared_diff(x, c))
  IN  /\ IF FLe(dist, epsilon)
         THEN y = [c EXCEPT ![1] = FAdd(c[1], r)]
         ELSE VecEq(y, [i \in 1..Len(x) |-> FAdd(c[i], FDiv(FMul(r, FSub(x[i], c[i])), dist))])
      /\ FEq(norm2_squared_diff(y, c), FMul(r, r))

\* C16: Sphere2::project returns c with r added to its first coordinate when
\* ||x - c|| <= 1e-12 and c + r*(x - c)/||x - c|| otherwise, and the output
\* lies on the sphere
C16_SphereSnapAndRescale ==
  (Projected /\ pset.kind = "Sphere2") =>
    (OnSphere(px[1], px[2]) /\ OnSphere(py[1], py[2]))

\* C17: a Rectangle returned by new has xmin or xmax present, both of equal
\* length when both are present, and xmin_i <= xmax_i for every i; other
\* arguments are rejected
C17_RectangleNewInvariants ==
  (pset.kind = "Rectangle" /\ pphase \notin {"args", "panic"}) =>
    /\ pset.xmin # <<>> \/ pset.xmax # <<>>
    /\ (pset.xmin # <<>> /\ pset.xmax # <<>>) =>
         /\ Len(pset.xmin[1]) = Len(pset.xmax[1])
         /\ \A i \in 1..Len(pset.xmin[1]) : FLe(pset.xmin[1][i], pset.xmax[1][i])

FMinOf(a, b) == IF FLe(a, b) THEN a ELSE b

FMaxOf(a, b) == IF FGe(a, b) THEN a ELSE b

\* y_i = min(max(x_i, xmin_i), xmax_i), an absent bound imposing no clamp
Clamped(x, y) ==
  \A i \in 1..Len(x) :
    LET lo == IF pset.xmin # <<>> THEN FMaxOf(x[i], pset.xmin[1][i]) ELSE x[i]
        hi == IF pset.xmax # <<>> THEN FMinOf(lo, pset.xmax[1][i]) ELSE lo
        within == /\ pset.xmin # <<>> => FGe(x[i], pset.xmin[1][i])
                  /\ pset.xmax # <<>> => FLe(x[i], pset.xmax[1][i])
    IN  /\ y[i] = hi
        /\ within => y[i] = x[i]

\* C18: Rectangle::project returns y_i = min(max(x_i, xmin_i), xmax_i), an
\* absent bound imposing no clamp, and leaves coordinates within the bounds
\* unchanged
C18_RectangleClamp ==
  (Projected /\ pset.kind = "Rectangle") =>
    (Clamped(px[1], px[2]) /\ Clamped(py[1], py[2]))

\* a point is clamped against both bounds of a rectangle whose xmin exceeds
\* its xmax, so that the order of the two clamps decides the output
C18_Witness ==
  /\ pphase = "once"
  /\ pset.kind = "Rectangle"
  /\ pset.xmin # <<>>
  /\ pset.xmax # <<>>
  /\ \E i \in 1..2 :
       /\ FLt(px[1][i], pset.xmin[1][i])
       /\ FGt(pset.xmin[1][i], pset.xmax[1][i])
       /\ px[2][i] = pset.xmax[1][i]

\* y - c is the soft-thresholding of d = x - c at some theta >= 0, the
\* optimality condition of the Euclidean projection on the l1 ball
SoftThresholded(d, e) ==
  \E k \in 1..Len(d) :
    LET theta == FSub(FAbs(d[k]), FAbs(e[k]))
    IN  /\ FGe(theta, Zero)
        /\ \A i \in 1..Len(d) :
             /\ FEq(FAbs(e[i]), FMaxOf(FSub(FAbs(d[i]), theta), Zero))
             /\ FGe(FMul(e[i], d[i]), Zero)

\* the documented image y of x on the l1 ball of pset
OnBall1(x, y) ==
  LET c == CentreOf(pset, Len(x))
      d == Diff(x, c)
      e == Diff(y, c)
      P == ReferenceProject(pset.radius, [i \in 1..Len(d) |-> FAbs(d[i])])
  IN  IF FLe(norm1(d), pset.radius)
      THEN y = x
      ELSE /\ VecEq(y, [i \in 1..Len(x) |-> FAdd(c[i], FMul(Sign(d[i]), P[i]))])
           /\ FEq(norm1(e), pset.radius)
           /\ SoftThresholded(d, e)

\* C19: Ball1::project leaves x unchanged when ||x - c||_1 <= r; otherwise the
\* output is c + sign(x - c) .* P(|x - c|) with P the projection on
\* Simplex(r), has ||y - c||_1 = r, no coordinate of y - c of the opposite
\* sign of x - c, and is the Euclidean projection of x on the l1 ball
C19_Ball1Projection ==
  (Projected /\ pset.kind = "Ball1") =>
    (OnBall1(px[1], px[2]) /\ OnBall1(py[1], py[2]))

\* a point outside a Ball1 with a centre, with a negative coordinate of
\* x - c, is projected with one coordinate of y - c set to zero
C19_Witness ==
  /\ pphase = "once"
  /\ pset.kind = "Ball1"
  /\ pset.center # <<>>
  /\ px[2] # px[1]
  /\ LET c == pset.center[1]
     IN  /\ \E i \in 1..3 : FLt(px[1][i], c[i]) /\ FLt(px[2][i], c[i])
         /\ \E i \in 1..3 : px[1][i] # c[i] /\ px[2][i] = c[i]

\* the elements of v at the indices outside hit_list, in their order
KeepOthers(v, hit_list) ==
  LET idx == {i \in 1..Len(v) : \A h \in 1..Len(hit_list) : hit_list[h] # i}
  IN  [k \in 1..Cardinality(idx) |->
         v[CHOOSE i \in idx : Cardinality({j \in idx : j <= i}) = k]]

\* a pass removed exactly the elements it tested and found at most rho:
\* the hit indices ascend, every hit element is at most the rho of the end
\* of the pass, and v is left with the other elements in their order
RemovedWhatWasTested(pass) ==
  /\ \A h \in 1..Len(pass.hit_list) :
       /\ pass.hit_list[h] \in 1..Len(pass.v)
       /\ h > 1 => pass.hit_list[h - 1] < pass.hit_list[h]
       /\ FLe(pass.v[pass.hit_list[h]], pass.rho_after)
  /\ pass.v_after = KeepOthers(pass.v, pass.hit_list)
  /\ Len(pass.v_after) = pass.current_len_v

\* the cleanup loop ran on the input of a constructed simplex
CleanupRan == pset.kind = "Simplex" /\ Projected

\* C27 as stated: the cleanup loop of Simplex::project terminates; every
\* pass except the last removes at least one element of V; a pass removes
\* the elements that were tested; the loop stops after the first pass,
\* other than the very first, that removes nothing
C27_EveryPassButLastRemoves ==
  CleanupRan =>
    \A P \in {SimplexPasses(pset.alpha, px[1])} :
      /\ \A k \in 1..(Len(P) - 1) : P[k].hit_list # <<>>
      /\ \A k \in 1..Len(P) : RemovedWhatWasTested(P[k])
      /\ \A k \in 2..Len(P) : P[k].hit_list = <<>> <=> k = Len(P)

\* C27, amended: the cleanup loop terminates after at least two and at most
\* Len(x) + 1 passes; every pass except the first and the last removes at
\* least one element of V (the first may remove nothing and is still
\* followed by a second); a pass removes the elements that were tested;
\* the loop stops after the first pass, other than the very first, that
\* removes nothing, and its rho is the threshold of the projection
C27_CleanupLoopTerminates ==
  CleanupRan =>
    \A P \in {SimplexPasses(pset.alpha, px[1])} :
      /\ Len(P) >= 2
      /\ Len(P) <= Len(px[1]) + 1
      /\ \A k \in 2..(Len(P) - 1) : P[k].hit_list # <<>>
      /\ \A k \in 1..Len(P) : RemovedWhatWasTested(P[k])
      /\ \A k \in 2..Len(P) : P[k].hit_list = <<>> <=> k = Len(P)
      /\ P[Len(P)].rho_after = SimplexRho(pset.alpha, px[1])
      /\ px[2] = [i \in 1..Len(px[1]) |->
                    FMax(Zero, FSub(px[1][i], P[Len(P)].rho_after))]

\* a projection whose cleanup loop made three passes, the first two
\* removing an element each
C27_Witness ==
  /\ CleanupRan
  /\ pphase = "once"
  /\ \E P \in {SimplexPasses(pset.alpha, px[1])} :
       /\ Len(P) = 3
       /\ P[1].hit_list # <<>>
       /\ P[2].hit_list # <<>>
       /\ P[3].hit_list = <<>>

\* rho * |V| = (sum of the elements of V) - alpha, with V not empty
RhoRelation(v, rho) ==
  /\ Len(v) >= 1
  /\ FEq(FMul(rho, Int2F(Len(v))), FSub(SumSeq(v), pset.alpha))

\* C28: in exact arithmetic, for alpha > 0 and a non-empty input, after
\* every update of rho in Simplex::project rho * |V| = sum(V) - alpha, and
\* V is never empty, so that no update divides by zero.  V is the list the
\* divisor of the update counts: in step 2 with the element being read, in
\* step 4 without the elements already hit in the pass
C28_RhoTimesSizeOfV ==
  CleanupRan =>
    LET x == px[1]
        a == pset.alpha
    IN  /\ \A k \in 1..Len(x) : RhoRelation(SimplexScan(x, a, k).v, SimplexScan(x, a, k).rho)
        /\ \A k \in 2..Len(x) :
             \A s \in {SimplexScan(x, a, k - 1)} :
               FGt(x[k], s.rho) =>
                 RhoRelation(Append(s.v, x[k]), SimplexScanRho(s, x[k]))
        /\ \A s2 \in {SimplexScan(x, a, Len(x))} :
             \A k \in 0..Len(s2.v_tilde) :
               RhoRelation(SimplexSweep(s2, k).v, SimplexSweep(s2, k).rho)
        /\ \A P \in {SimplexPasses(a, x)} :
             \A j \in 1..Len(P) :
               /\ RhoRelation(P[j].v_after, P[j].rho_after)
               /\ \A k \in 0..Len(P[j].v) :
                    \A c \in {CleanupPass(P[j].v, P[j].rho, k)} :
                      /\ c.current_len_v >= 1
                      /\ c.current_len_v = Len(KeepOthers(P[j].v, c.hit_list))
                      /\ RhoRelation(KeepOthers(P[j].v, c.hit_list), c.rho)

\* a projection whose first cleanup pass updated rho twice, removing two
\* of the four elements the scan had collected in V
C28_Witness ==
  /\ CleanupRan
  /\ pphase = "once"
  /\ Len(SimplexScan(px[1], pset.alpha, Len(px[1])).v) = 4
  /\ \E P \in {SimplexPasses(pset.alpha, px[1])} :
       /\ Len(P[1].hit_list) = 2
       /\ Len(P[1].v_after) = 2

----------------------------------------------------------------------------
(* Properties of PANOCCache (specification SpecPanoc)                      *)

\* C20: after reset() the LBFGS buffer is empty, tau = 1, the iteration
\* counter is 0, tolerance keeps its value, and gamma, lipschitz_constant,
\* sigma, cost_value, norm_gamma_fpr, lhs_ls and rhs_ls are zero
C20_ResetRestoresVirginState ==
  (Live /\ cret.op = "reset") =>
    /\ pcache.lbfgs.active_size = 0
    /\ pcache.tau = One
    /\ pcache.iteration = 0
    /\ pcache.tolerance = cargs.tolerance
    /\ pcache.gamma = Zero
    /\ pcache.lipschitz_constant = Zero
    /\ pcache.sigma = Zero
    /\ pcache.cost_value = Zero
    /\ pcache.norm_gamma_fpr = Zero
    /\ pcache.lhs_ls = Zero
    /\ pcache.rhs_ls = Zero

\* the AKKT termination test is armed
Armed == pcache.akkt_tolerance # <<>>

\* C21 as stated: fpr_exit_condition() is true iff
\* norm_gamma_fpr < gamma * tolerance
C21_FprExitScaledByGamma ==
  Live =>
    (fpr_exit_condition(pcache)
       <=> FLt(pcache.norm_gamma_fpr, FMul(pcache.gamma, pcache.tolerance)))

\* C21, amended: fpr_exit_condition() is true iff norm_gamma_fpr < tolerance,
\* gamma not entering the comparison; with no AKKT tolerance set this is
\* what exit_condition() returns
C21_FprExitAgainstTolerance ==
  Live =>
    /\ fpr_exit_condition(pcache) <=> FLt(pcache.norm_gamma_fpr, pcache.tolerance)
    /\ (cret.op = "exit_condition" /\ ~Armed) =>
         (cret.value <=> FLt(pcache.norm_gamma_fpr, pcache.tolerance))

\* exit_condition() answered true in a run whose norm_gamma_fpr is not
\* below gamma * tolerance
C21_Witness ==
  /\ cphase = "running"
  /\ cret.op = "exit_condition"
  /\ cret.value
  /\ ~Armed
  /\ pcache.iteration >= 1
  /\ FGt(pcache.gamma, Zero)
  /\ ~FLt(pcache.norm_gamma_fpr, FMul(pcache.gamma, pcache.tolerance))

\* ||gamma_fpr + gamma*(gradient_u - gradient_u_previous)||^2 over the
\* common length of the three vectors
ResidualSquared ==
  LET p == pcache.gradient_u_previous[1]
      n == ZipLen3(pcache.gamma_fpr, pcache.gradient_u, p)
  IN  SumSeq([i \in 1..n |->
                LET t == FAdd(pcache.gamma_fpr[i],
                              FMul(pcache.gamma, FSub(pcache.gradient_u[i], p[i])))
                IN  FMul(t, t)])

\* the AKKT residual is strictly below the AKKT tolerance
ResidualBelow ==
  FLt(ResidualSquared, FMul(pcache.akkt_tolerance[1], pcache.akkt_tolerance[1]))

C23_PreviousGradientAlwaysRefreshed ==
  (Live /\ cret.op = "cache_previous_gradient" /\ Armed) =>
    pcache.gradient_u_previous = <<pcache.gradient_u>>

Buffers ==
  <<pcache.gradient_u, pcache.u_half_step, pcache.gamma_fpr,
    pcache.direction_lbfgs, pcache.gradient_step, pcache.u_plus>>

\* gradient_u_previous is allocated iff an AKKT tolerance is set, with
\* length n, and the other buffers have length n
BuffersInShape ==
  Live =>
    /\ pcache.gradient_u_previous # <<>> <=> Armed
    /\ Armed => Len(pcache.gradient_u_previous[1]) = cargs.problem_size
    /\ \A i \in 1..Len(Buffers) : Len(Buffers[i]) = cargs.problem_size
    /\ pcache.lbfgs.problem_size = cargs.problem_size

\* C30: after any sequence of new, set_akkt_tolerance,
\* cache_previous_gradient, reset and with_cbfgs_parameters,
\* gradient_u_previous is allocated iff an AKKT tolerance is set, has length
\* n when allocated, and every other length-n buffer keeps length n; with
\* AKKT not armed cache_previous_gradient changes nothing
C30_PreviousGradientBufferShape ==
  /\ []BuffersInShape
  /\ [][(Live /\ ~Armed /\ cret'.op = "cache_previous_gradient") =>
          pcache' = pcache]_vars

\* cache_previous_gradient was called on an armed cache of length 2 after a
\* reset, and the buffer holds a nonzero gradient
C30_Witness ==
  /\ cphase = "live"
  /\ Armed
  /\ cret.op = "cache_previous_gradient"
  /\ cargs.problem_size = 2
  /\ Len(pcache.gradient_u_previous[1]) = 2
  /\ pcache.gradient_u_previous[1] # Zeros(2)

----------------------------------------------------------------------------
(* Properties of construction (specification SpecObjects)                  *)

\* a constraint set came out of its constructor
Constructed == pphase \in {"input", "once", "twice"}

\* C25: every constructed Ball1, Ball2, BallInf and Sphere2 has radius > 0,
\* every constructed Simplex and SecondOrderCone has alpha > 0, every
\* PANOCCache has tolerance > 0 and, when set, akkt_tolerance > 0; the
\* constructors panic on zero, negative and NaN values, and only on those
C25_PositiveParameters ==
  /\ pset.kind \in {"Ball1", "Ball2", "BallInf", "Sphere2"} =>
       /\ Constructed => FGt(pset.radius, Zero)
       /\ pphase = "panic" => ~FGt(pset.radius, Zero)
  /\ pset.kind \in {"Simplex", "SecondOrderCone"} =>
       /\ Constructed => FGt(pset.alpha, Zero)
       /\ pphase = "panic" => ~FGt(pset.alpha, Zero)
  /\ Live =>
       /\ FGt(pcache.tolerance, Zero)
       /\ FGt(cargs.tolerance, Zero)
       /\ Armed => FGt(pcache.akkt_tolerance[1], Zero)
  /\ (cphase = "panic" /\ cret.op = "new") => ~FGt(cargs.tolerance, Zero)
  /\ (cphase = "panic" /\ cret.op = "set_akkt_tolerance") =>
       (Armed => FGt(pcache.akkt_tolerance[1], Zero))

\* set_akkt_tolerance panicked on a zero tolerance, on a cache whose AKKT
\* tolerance had been set before
C25_Witness ==
  /\ cphase = "panic"
  /\ cret.op = "set_akkt_tolerance"
  /\ Armed
  /\ pcache.iteration >= 1

----------------------------------------------------------------------------
(* Further properties of FBSOptimizer::solve (specification Spec)          *)

\* C26: the iteration count in the SolverStatus returned by solve equals
\* the number of step calls that solve executed
C26_NumIterCountsStepCalls == Returned => result.num_iter = step_calls

\* the gradient callback writes every component of its output
WritesEveryComponent == problem.gradf # "my_gradient" \/ Dim <= 2

\* C29: without max_duration the outcome of solve (final u, exit status,
\* iteration count, norm_fpr, cost) is the one a solve with a freshly
\* constructed cache gives for the same initial u, gamma, tolerance,
\* max_iter and problem, whatever an earlier solve left in the cache,
\* provided the gradient callback writes every component
C29_SolveIgnoresPriorCacheContents ==
  (pc = "done" /\ max_duration = <<>> /\ WritesEveryComponent) =>
    [u |-> u, result |-> result]
      = solve(problem, FBSCacheNew(Dim, cache.gamma, cache.tolerance),
              solve_entry.u, max_iter)

\* a solve that reused the cache of an earlier, converged solve returned
\* after more than one step
C29_Witness ==
  /\ Returned
  /\ max_duration = <<>>
  /\ solve_entry.cache = UsedCache(cache.tolerance)
  /\ solve_entry.cache # FBSCacheNew(Dim, cache.gamma, cache.tolerance)
  /\ FLt(solve_entry.cache.norm_fpr, cache.tolerance)
  /\ result.num_iter >= 1
  /\ result.exit_status = "Converged"


====
